---- MODULE Spec2Model ----
(***************************************************************************)
(* Model of the training step (src/src/partitioning/xmap_train_functions.py,*)
(* src/benchmark_pjit_dp.py) and of the decoding engine                     *)
(* (src/torch_compatability/generation.py) of pmap-transformer.             *)
(*                                                                          *)
(* Numbers.  Logits are integers counted in units of ln 2, so that          *)
(* exp(logit) = 2^logit and every softmax probability is an exact rational. *)
(* Losses, gradients and means are exact rationals <<num, den>>, den > 0.   *)
(***************************************************************************)
EXTENDS Integers, Sequences, FiniteSets, TLC

\* ------------------------------------------------------------------ bounds
VocabSize == 3            \* tokens 0 .. VocabSize-1 (the program uses 50432)
MaxLogit == 1             \* logits handed to the filters range over -MaxLogit..MaxLogit
TopPDen == 4              \* top_p ranges over 0/TopPDen .. TopPDen/TopPDen
MaxPrompt == 2            \* longest encoded prompt
MaxSeqLen == 2            \* largest context window seq_len
MaxSteps == 3             \* largest step budget
MaxWorkers == 2           \* largest number of workers on the "batch" axis
MaxAccum == 3             \* largest accum_steps
MaxAxis == 2              \* largest size of the accumulation axis of the batch
MaxParam == 1             \* update_opt_state: leaves range over -MaxParam..MaxParam
MaxLr == 2                \* learning rates 1..MaxLr of the update rule

\* ------------------------------------------------------- program constants
NegInf == -1000000        \* -float("Inf")
pad_token == 0            \* tokenizer.eos_token_id

Vocab == 0 .. (VocabSize - 1)
None == "None"
\* ret and result before the call has returned: a tuple of no elements
NoReturn == [arity |-> 0]

\* layer_past is NoCache (Python None) or <<c>>, c the positions the cache holds
NoCache == <<>>

\* ----------------------------------------------------------------- helpers
RECURSIVE Pow2(_)
Pow2(n) == IF n <= 0 THEN 1 ELSE 2 * Pow2(n - 1)

RECURSIVE SumSeq(_)
SumSeq(s) == IF s = <<>> THEN 0 ELSE Head(s) + SumSeq(Tail(s))

RECURSIVE GCD(_, _)
GCD(a, b) == IF b = 0 THEN a ELSE GCD(b, a % b)

Abs(a) == IF a < 0 THEN -a ELSE a

\* exact rationals
Norm(r) ==
  LET g == GCD(Abs(r[1]), r[2]) IN <<r[1] \div g, r[2] \div g>>

RAdd(a, b) == Norm(<<a[1] * b[2] + b[1] * a[2], a[2] * b[2]>>)

RDivInt(a, n) == Norm(<<a[1], a[2] * n>>)

RInt(n) == <<n, 1>>

\* a / b for integers with b # 0 and b dividing a
DivExact(a, b) == IF b > 0 THEN a \div b ELSE -(a \div (-b))

\* a tensor row sliced as t[-n:] in Python: -0 is 0, so n = 0 keeps all of t
LastN(t, n) ==
  IF n = 0 \/ n >= Len(t) THEN t ELSE SubSeq(t, Len(t) - n + 1, Len(t))

Range(s) == {s[i] : i \in DOMAIN s}

\* all orderings of the vocabulary
Perms == {p \in [1 .. VocabSize -> Vocab] : Range(p) = Vocab}

\* --------------------------------------------------------- logit filtering
\* torch.sort(logits, descending=True): the index orders it may return; the
\* order of equal logits is not specified.
SortedIndices(logits) ==
  {p \in Perms : \A i \in 1 .. (VocabSize - 1) : logits[p[i]] >= logits[p[i + 1]]}

\* torch.topk(logits, k) values: v[j] is the j-th highest logit
TopKValues(logits, k) ==
  LET p == CHOOSE q \in SortedIndices(logits) : TRUE
  IN  [j \in 1 .. k |-> logits[p[j]]]

top_k_maskLE(x, kth) == x <= kth

\* out < v[:, [-1]]
top_k_mask(x, kth) == x < kth

top_k_logits(logits, k) ==
  LET v == TopKValues(logits, k)
  IN  [t \in Vocab |-> IF top_k_mask(logits[t], v[k]) THEN NegInf ELSE logits[t]]

\* exp(logit) scaled by a common factor: the numerators of F.softmax
ExpWeights(logits) ==
  LET lo == CHOOSE m \in Range(logits) : \A n \in Range(logits) : m <= n
  IN  [t \in Vocab |-> Pow2(logits[t] - lo)]

RECURSIVE SumOver(_, _)
SumOver(f, S) ==
  IF S = {} THEN 0
  ELSE LET t == CHOOSE u \in S : TRUE IN f[t] + SumOver(f, S \ {t})

\* torch.cumsum(F.softmax(sorted_logits)) as numerators over the common
\* denominator SumOver(w, Vocab)
CumulativeWeights(w, p) ==
  [i \in 1 .. VocabSize |-> SumOver(w, {p[j] : j \in 1 .. i})]

top_p_aboveGE(cum, total, pnum) == cum * TopPDen >= pnum * total

\* cumulative_probs > top_p, with top_p = pnum / TopPDen
top_p_above(cum, total, pnum) == cum * TopPDen > pnum * total

\* top_p_logits with the sort order p that torch.sort returned
top_p_logits(logits, pnum, p) ==
  IF pnum > 0
  THEN LET w == ExpWeights(logits)
           total == SumOver(w, Vocab)
           cum == CumulativeWeights(w, p)
           remove == [i \in 1 .. VocabSize |-> top_p_above(cum[i], total, pnum)]
           shifted == [i \in 1 .. VocabSize |-> IF i = 1 THEN FALSE ELSE remove[i - 1]]
           indices_to_remove == {p[i] : i \in {j \in 1 .. VocabSize : shifted[j]}}
       IN  [t \in Vocab |-> IF t \in indices_to_remove THEN NegInf ELSE logits[t]]
  ELSE logits

Unfiltered(logits) == {t \in Vocab : logits[t] # NegInf}

\* ------------------------------------------------------------------- state
VARIABLES
  \* top_k_logits / top_p_logits called on their own
  fpc, f_logits, f_k, f_p, f_sorted, f_out,
  \* TextGenerator.generate_text_from_prompt / generate_tokens
  pc, sampling_method, temperature, top_k, top_p, repetition_penalty, steps,
  seq_len, prompt, x, x_cond, layer_past, generated_tokens, logprobs, step,
  calls, appended, selected, ret, result

filterVars == <<fpc, f_logits, f_k, f_p, f_sorted, f_out>>

genArgs == <<sampling_method, temperature, top_k, top_p, repetition_penalty,
             steps, seq_len, prompt>>

genState == <<pc, x, x_cond, layer_past, generated_tokens, logprobs, step,
              calls, appended, selected, ret, result>>

genVars == <<genArgs, genState>>

VARIABLES
  \* train_step on every worker of the "batch" axis
  W, accum_steps, params, batch, tpc, grad_idx, cumul_loss, cumul_grads,
  loss, grads, local_mean, visited, metrics,
  \* update_opt_state
  opc, o_grads, o_params, o_state, o_rule, o_lr, o_seen, o_new_params, o_new_state

trainVars == <<W, accum_steps, params, batch, tpc, grad_idx, cumul_loss,
               cumul_grads, loss, grads, local_mean, visited, metrics>>

optVars == <<opc, o_grads, o_params, o_state, o_rule, o_lr, o_seen,
             o_new_params, o_new_state>>

vars == <<filterVars, genVars, trainVars, optVars>>

\* ------------------------------------------- the filters called on their own
FilterLogits == [Vocab -> (-MaxLogit) .. MaxLogit]

TopKCall ==
  /\ fpc = "call"
  /\ f_out' = top_k_logits(f_logits, f_k)
  /\ fpc' = "topk"
  /\ UNCHANGED <<f_logits, f_k, f_p, f_sorted>>
  /\ UNCHANGED <<genVars, trainVars, optVars>>

TopPCall ==
  /\ fpc = "call"
  /\ \E p \in SortedIndices(f_logits) :
       /\ f_sorted' = p
       /\ f_out' = top_p_logits(f_logits, f_p, p)
  /\ fpc' = "topp"
  /\ UNCHANGED <<f_logits, f_k, f_p>>
  /\ UNCHANGED <<genVars, trainVars, optVars>>

\* ------------------------------------------------- TextGenerator.generate_*
Methods == {"greedy", "nucleus", "topk", "typical"}

\* the tokenizer's encoding of the prompt: one to MaxPrompt token ids, the
\* id at position i being i modulo the vocabulary size
Prompts == {[i \in 1 .. n |-> i % VocabSize] : n \in 1 .. MaxPrompt}

\* the last-position logits a forward pass may return; multiples of 4 so that
\* the divisions by temperature and repetition_penalty below are exact
ModelLogits == [Vocab -> {-4, 4}]

TruncatePromptNoCut(t, n) == t

\* x_cond = x[:, -seq_len:] if x.shape[1] > seq_len else x
TruncatePrompt(t, n) == IF Len(t) > n THEN LastN(t, n) ELSE t

\* lines 187-205: encode the prompt, cut the model input, empty cache and history
Prime ==
  /\ pc = "PRIME"
  /\ x' = prompt
  /\ x_cond' = TruncatePrompt(prompt, seq_len)
  /\ layer_past' = NoCache
  /\ generated_tokens' = <<>>
  /\ logprobs' = <<>>
  /\ step' = 0
  /\ pc' = "STEP"
  /\ UNCHANGED <<genArgs, calls, appended, selected, ret, result>>
  /\ UNCHANGED <<filterVars, trainVars, optVars>>

\* the cache a forward pass returns (layers.py: concatenate the new keys to
\* the past ones and keep the last block_size), block_size being seq_len
Present(past, input) ==
  <<LastN(IF past = NoCache THEN input ELSE past[1] \o input, seq_len)>>

\* logits[:, -1, :] / temperature, temperature # 0
Temper(raw) == [t \in Vocab |-> DivExact(raw[t], temperature)]

RECURSIVE Penalise(_, _)
\* lines 221-225
Penalise(logits, gen) ==
  IF gen = <<>> THEN logits
  ELSE LET t == Head(gen)
           l == IF logits[t] < 0
                THEN logits[t] * repetition_penalty
                ELSE DivExact(logits[t], repetition_penalty)
       IN  Penalise([logits EXCEPT ![t] = l], Tail(gen))

\* typical_sampling_logits keeps the tokens whose surprisal is closest to the
\* entropy; the entropy is not a rational, so its result is any logits vector
\* with a non-empty set of tokens left unfiltered
TypicalOutcomes(logits) ==
  {[t \in Vocab |-> IF t \in S THEN logits[t] ELSE NegInf] : S \in (SUBSET Vocab) \ {{}}}

\* lines 227-234: the logits vectors the selected filter may produce
Filtered(logits) ==
  CASE sampling_method = "nucleus" ->
         {top_p_logits(logits, top_p, p) : p \in SortedIndices(logits)}
    [] sampling_method = "typical" -> TypicalOutcomes(logits)
    [] sampling_method = "topk" -> {top_k_logits(logits, top_k)}
    [] OTHER -> {logits}

\* torch.topk(probs, k=1).indices: a token of highest probability
ArgMax(logits) == {t \in Vocab : \A u \in Vocab : logits[u] <= logits[t]}

\* generated_tokens.append(tok) unless it is already there
Remember(gen, tok) ==
  IF tok \in Range(gen) THEN gen ELSE Append(gen, tok)

\* lines 219-225: the logits after temperature and repetition penalty, for
\* every logits vector the forward pass may return
PenalisedLogits ==
  {Penalise(Temper(raw), generated_tokens) : raw \in ModelLogits}

\* line 239: can greedy selection return tok?  With temperature == 0 every
\* probability is nan and the index topk returns is unspecified
GreedyTokens ==
  {tok \in Vocab : temperature = 0 \/ \E l \in PenalisedLogits : tok \in ArgMax(l)}

\* line 244: torch.multinomial returns a token of non-zero probability
SampledTokens ==
  {tok \in Vocab : \E pl \in PenalisedLogits : \E l \in Filtered(pl) : l[tok] # NegInf}

ForwardNoCache ==
  /\ calls' = Append(calls, [input |-> x_cond, past |-> NoCache])
  /\ layer_past' = Present(layer_past, x_cond)

\* the model forward pass of one iteration (lines 208-217)
Forward ==
  /\ calls' = Append(calls, [input |-> x_cond, past |-> layer_past])
  /\ layer_past' = Present(layer_past, x_cond)

\* one iteration of the loop with sampling_method == "greedy" (lines 207-242)
StepGreedy ==
  /\ pc = "STEP" /\ step < steps
  /\ sampling_method = "greedy"
  /\ Forward
  /\ \E tok \in GreedyTokens :
         /\ x_cond' = <<tok>>
         /\ x' = Append(x, tok)
         /\ appended' = Append(appended, tok)
         /\ selected' = Append(selected, tok)
         /\ IF tok = pad_token
            THEN /\ ret' = [x |-> x', step |-> step, arity |-> 2]
                 /\ pc' = "DONE"
                 /\ step' = step
            ELSE /\ ret' = ret
                 /\ pc' = pc
                 /\ step' = step + 1
  /\ UNCHANGED <<genArgs, generated_tokens, logprobs, result>>
  /\ UNCHANGED <<filterVars, trainVars, optVars>>

\* one iteration of the loop with any other sampling_method (lines 207-253)
StepSample ==
  /\ pc = "STEP" /\ step < steps
  /\ sampling_method # "greedy"
  /\ temperature # 0
  /\ Forward
  /\ \E tok \in SampledTokens :
           /\ x_cond' = <<tok>>
           /\ selected' = Append(selected, tok)
           \* the entry log(probs[:, x_cond]) is represented by its token
           /\ logprobs' = Append(logprobs, tok)
           /\ IF tok = pad_token
              THEN /\ ret' = [x |-> x, step |-> step, logprobs |-> logprobs', arity |-> 3]
                   /\ pc' = "DONE"
                   /\ step' = step
                   /\ UNCHANGED <<x, appended, generated_tokens>>
              ELSE /\ x' = Append(x, tok)
                   /\ appended' = Append(appended, tok)
                   /\ generated_tokens' = Remember(generated_tokens, tok)
                   /\ ret' = ret
                   /\ pc' = pc
                   /\ step' = step + 1
  /\ UNCHANGED <<genArgs, result>>
  /\ UNCHANGED <<filterVars, trainVars, optVars>>

\* temperature == 0 makes every logit inf, -inf or nan and the softmax nan:
\* torch.multinomial raises on it, after the forward pass (lines 219-244)
StepSampleNaN ==
  /\ pc = "STEP" /\ step < steps
  /\ sampling_method # "greedy"
  /\ temperature = 0
  /\ Forward
  /\ pc' = "RuntimeError"
  /\ UNCHANGED <<genArgs, x, x_cond, generated_tokens, logprobs, step,
                 appended, selected, ret, result>>
  /\ UNCHANGED <<filterVars, trainVars, optVars>>

\* line 255: the step budget is exhausted
ReturnExhausted ==
  /\ pc = "STEP" /\ step >= steps
  /\ ret' = [x |-> x, step |-> steps, logprobs |-> logprobs, arity |-> 3]
  /\ pc' = "DONE"
  /\ UNCHANGED <<genArgs, x, x_cond, layer_past, generated_tokens, logprobs,
                 step, calls, appended, selected, result>>
  /\ UNCHANGED <<filterVars, trainVars, optVars>>

\* token_to_text: the ids handed to tokenizer.decode (lines 167-170)
token_to_text(tok, n) == LastN(tok, n)

\* lines 145-158: unpack the three results and decode
FromPromptReturn ==
  /\ pc = "DONE" /\ ret.arity = 3
  /\ result' = [prompt |-> prompt, new_words |-> token_to_text(ret.x, ret.step),
                logprobs |-> ret.logprobs]
  /\ pc' = "TEXT"
  /\ UNCHANGED <<genArgs, x, x_cond, layer_past, generated_tokens, logprobs,
                 step, calls, appended, selected, ret>>
  /\ UNCHANGED <<filterVars, trainVars, optVars>>

\* line 145: unpacking a two-element return into three names raises ValueError
FromPromptUnpackError ==
  /\ pc = "DONE" /\ ret.arity = 2
  /\ pc' = "ValueError"
  /\ UNCHANGED <<genArgs, x, x_cond, layer_past, generated_tokens, logprobs,
                 step, calls, appended, selected, ret, result>>
  /\ UNCHANGED <<filterVars, trainVars, optVars>>

GenNext ==
  \/ Prime \/ StepGreedy \/ StepSample \/ StepSampleNaN
  \/ ReturnExhausted \/ FromPromptReturn \/ FromPromptUnpackError

\* ------------------------------------------------------------- train_step
Workers == 1 .. W

\* a parameter tree: two leaves
Leaves == 1 .. 2

\* the microbatches a batch is made of, and the parameter trees of a step
Microbatches == {1, 2}

ParamTrees == {<<1, 0>>, <<2, 1>>}

\* jax.lax.dynamic_index_in_dim(x, grad_idx, axis=1): a negative index counts
\* from the end, and the index is then clamped into the axis
ClampIndex(i, size) ==
  LET j == IF i < 0 THEN i + size ELSE i
  IN  IF j < 0 THEN 0 ELSE IF j > size - 1 THEN size - 1 ELSE j

\* the slices of a worker's batch along the accumulation axis are b[1..Len(b)]
get_minibatch(b, idx) == b[ClampIndex(idx, Len(b)) + 1]

\* the model's loss on a microbatch: a linear model stands for model.apply
loss_fn(p, minibatch) == minibatch * p[1] + p[2]

\* jax.value_and_grad(loss_fn): the loss and its derivative in each leaf
grad_fn(p, minibatch) ==
  [loss |-> RInt(loss_fn(p, minibatch)), grads |-> <<RInt(minibatch), RInt(1)>>]

loss_and_grad(p, b, idx) == grad_fn(p, get_minibatch(b, idx))

zeros_likeCopy(p) == [l \in DOMAIN p |-> RInt(p[l])]

\* jax.tree_util.tree_map(jnp.zeros_like, params)
zeros_like(p) == [l \in DOMAIN p |-> RInt(0)]

\* tree_map(lambda x: x / accum_steps, .)
DivideTree(t, n) == [l \in DOMAIN t |-> RDivInt(t[l], n)]

RECURSIVE RSum(_, _)
RSum(f, S) ==
  IF S = {} THEN RInt(0)
  ELSE LET w == CHOOSE u \in S : TRUE IN RAdd(f[w], RSum(f, S \ {w}))

psum(f) == [w \in Workers |-> RSum(f, Workers)]

\* jax.lax.pmean(v, axis_name="batch"): every worker gets the mean over workers
pmean(f) == [w \in Workers |-> RDivInt(RSum(f, Workers), W)]

\* line 47: init_minibatch = (0.0, zeros_like(params))
TrainStart(w) ==
  /\ tpc[w] = "start"
  /\ cumul_loss' = [cumul_loss EXCEPT ![w] = RInt(0)]
  /\ cumul_grads' = [cumul_grads EXCEPT ![w] = zeros_like(params)]
  /\ grad_idx' = [grad_idx EXCEPT ![w] = 0]
  /\ tpc' = [tpc EXCEPT ![w] = "loop"]
  /\ UNCHANGED <<W, accum_steps, params, batch, loss, grads, local_mean,
                 visited, metrics>>
  /\ UNCHANGED <<filterVars, genVars, optVars>>

\* lines 50-64: one trip of fori_loop(0, accum_steps, cumul_minibatch_step, .)
AccumStep(w) ==
  /\ tpc[w] = "loop" /\ grad_idx[w] < accum_steps
  /\ LET lg == loss_and_grad(params, batch[w], grad_idx[w])
     IN  /\ cumul_loss' = [cumul_loss EXCEPT ![w] = RAdd(@, lg.loss)]
         /\ cumul_grads' = [cumul_grads EXCEPT
                              ![w] = [l \in Leaves |-> RAdd(@[l], lg.grads[l])]]
         /\ visited' = [visited EXCEPT
                          ![w] = Append(@, [idx |-> grad_idx[w], params |-> params,
                                            minibatch |-> get_minibatch(batch[w], grad_idx[w])])]
  /\ grad_idx' = [grad_idx EXCEPT ![w] = @ + 1]
  /\ UNCHANGED <<W, accum_steps, params, batch, tpc, loss, grads, local_mean, metrics>>
  /\ UNCHANGED <<filterVars, genVars, optVars>>

\* line 66: the loop is over, sum -> mean
Mean(w) ==
  /\ tpc[w] = "loop" /\ grad_idx[w] >= accum_steps
  /\ loss' = [loss EXCEPT ![w] = RDivInt(cumul_loss[w], accum_steps)]
  /\ grads' = [grads EXCEPT ![w] = DivideTree(cumul_grads[w], accum_steps)]
  /\ local_mean' = [local_mean EXCEPT ![w] = [loss |-> loss'[w], grads |-> grads'[w]]]
  /\ tpc' = [tpc EXCEPT ![w] = "pmean_loss"]
  /\ UNCHANGED <<W, accum_steps, params, batch, grad_idx, cumul_loss,
                 cumul_grads, visited, metrics>>
  /\ UNCHANGED <<filterVars, genVars, optVars>>

\* line 68: the collective completes once every worker has entered it
PmeanLoss ==
  /\ \A w \in Workers : tpc[w] = "pmean_loss"
  /\ loss' = pmean(loss)
  /\ tpc' = [w \in Workers |-> "pmean_grads"]
  /\ UNCHANGED <<W, accum_steps, params, batch, grad_idx, cumul_loss,
                 cumul_grads, grads, local_mean, visited, metrics>>
  /\ UNCHANGED <<filterVars, genVars, optVars>>

\* line 69
PmeanGrads ==
  /\ \A w \in Workers : tpc[w] = "pmean_grads"
  /\ grads' = [w \in Workers |->
                 [l \in Leaves |-> pmean([v \in Workers |-> grads[v][l]])[w]]]
  /\ tpc' = [w \in Workers |-> "return"]
  /\ UNCHANGED <<W, accum_steps, params, batch, grad_idx, cumul_loss,
                 cumul_grads, loss, local_mean, visited, metrics>>
  /\ UNCHANGED <<filterVars, genVars, optVars>>

\* lines 71-76
TrainReturn(w) ==
  /\ tpc[w] = "return"
  /\ metrics' = [metrics EXCEPT ![w] = [grads |-> grads[w], loss |-> loss[w],
                                        ppl |-> <<"exp", loss[w]>>]]
  /\ tpc' = [tpc EXCEPT ![w] = "done"]
  /\ UNCHANGED <<W, accum_steps, params, batch, grad_idx, cumul_loss,
                 cumul_grads, loss, grads, local_mean, visited>>
  /\ UNCHANGED <<filterVars, genVars, optVars>>

TrainNext ==
  \/ \E w \in Workers : TrainStart(w)
  \/ \E w \in Workers : AccumStep(w)
  \/ \E w \in Workers : Mean(w)
  \/ PmeanLoss
  \/ PmeanGrads
  \/ \E w \in Workers : TrainReturn(w)

\* -------------------------------------------------------- update_opt_state
\* with_sharding_constraint(x, spec) lays x out as spec says; the values of x
\* are returned as they are
with_sharding_constraint(t, spec) == t

\* optimizer.update(grads, state, params) of two rules without weight decay:
\* plain gradient descent and sign descent; the state counts the updates
Sign(a) == IF a > 0 THEN 1 ELSE IF a < 0 THEN -1 ELSE 0

optimizer_update(g, state, p) ==
  [updates |-> [l \in DOMAIN g |->
                  IF o_rule = "sgd" THEN -(o_lr * g[l]) ELSE -(o_lr * Sign(g[l]))],
   state |-> state + 1]

\* optax.apply_updates(params, updates)
apply_updates(p, u) == [l \in DOMAIN p |-> p[l] + u[l]]

\* lines 103-108
update_opt_state ==
  /\ opc = "call"
  /\ LET grads1 == with_sharding_constraint(o_params, "grad_spec")
         grads2 == with_sharding_constraint(grads1, "grad_spec")
         u == optimizer_update(grads2, o_state, o_params)
     IN  /\ o_seen' = grads2
         /\ o_new_params' = apply_updates(o_params, u.updates)
         /\ o_new_state' = u.state
  /\ opc' = "done"
  /\ UNCHANGED <<o_grads, o_params, o_state, o_rule, o_lr>>
  /\ UNCHANGED <<filterVars, genVars, trainVars>>

\* ---------------------------------------------------------- specifications
\* a call of top_k_logits or top_p_logits: logits, k and top_p = f_p / TopPDen
FilterInit ==
  /\ fpc = "call"
  /\ f_logits \in FilterLogits
  /\ f_k \in 1 .. VocabSize
  /\ f_p \in 0 .. TopPDen
  /\ f_sorted = <<>>
  /\ f_out = <<>>
  /\ pc = "idle" /\ sampling_method = None /\ temperature = 1 /\ top_k = None
  /\ top_p = None /\ repetition_penalty = 1 /\ steps = 0 /\ seq_len = 1
  /\ prompt = <<>> /\ x = <<>> /\ x_cond = <<>> /\ layer_past = <<>>
  /\ generated_tokens = <<>> /\ logprobs = <<>> /\ step = 0 /\ calls = <<>>
  /\ appended = <<>> /\ selected = <<>> /\ ret = NoReturn /\ result = NoReturn
  /\ W = 0 /\ accum_steps = 1 /\ params = <<>> /\ batch = <<>> /\ tpc = <<>>
  /\ grad_idx = <<>> /\ cumul_loss = <<>> /\ cumul_grads = <<>> /\ loss = <<>>
  /\ grads = <<>> /\ local_mean = <<>> /\ visited = <<>> /\ metrics = <<>>
  /\ opc = "idle" /\ o_grads = <<>> /\ o_params = <<>> /\ o_state = 0
  /\ o_rule = None /\ o_lr = 1 /\ o_seen = None /\ o_new_params = None
  /\ o_new_state = None

\* a call of generate_text_from_prompt on a constructed TextGenerator (lines 120-143)
GenInit ==
  /\ pc = "PRIME"
  /\ sampling_method \in Methods \cup {None, "beam"}
  /\ temperature \in {-1, 0, 2}
  /\ top_k \in (IF sampling_method = "topk" THEN {1, VocabSize} ELSE {None})
  /\ top_p \in (IF sampling_method = "nucleus" THEN {0, 1, TopPDen} ELSE {None})
  /\ repetition_penalty \in {1, 2}
  /\ steps \in 0 .. MaxSteps
  /\ seq_len \in 1 .. MaxSeqLen
  /\ prompt \in Prompts
  /\ x = <<>> /\ x_cond = <<>> /\ layer_past = <<>>
  /\ generated_tokens = <<>> /\ logprobs = <<>> /\ step = 0 /\ calls = <<>>
  /\ appended = <<>> /\ selected = <<>> /\ ret = NoReturn /\ result = NoReturn
  /\ fpc = "idle" /\ f_logits = <<>> /\ f_k = 0 /\ f_p = 0
  /\ f_sorted = <<>> /\ f_out = <<>>
  /\ W = 0 /\ accum_steps = 1 /\ params = <<>> /\ batch = <<>> /\ tpc = <<>>
  /\ grad_idx = <<>> /\ cumul_loss = <<>> /\ cumul_grads = <<>> /\ loss = <<>>
  /\ grads = <<>> /\ local_mean = <<>> /\ visited = <<>> /\ metrics = <<>>
  /\ opc = "idle" /\ o_grads = <<>> /\ o_params = <<>> /\ o_state = 0
  /\ o_rule = None /\ o_lr = 1 /\ o_seen = None /\ o_new_params = None
  /\ o_new_state = None

\* a call of train_step on each of W workers (lines 11-17)
TrainInit ==
  /\ W \in 1 .. MaxWorkers
  /\ accum_steps \in 1 .. MaxAccum
  /\ params \in ParamTrees
  /\ \E A \in 1 .. MaxAxis : batch \in [Workers -> [1 .. A -> Microbatches]]
  /\ tpc = [w \in Workers |-> "start"]
  /\ grad_idx = [w \in Workers |-> 0]
  /\ cumul_loss = [w \in Workers |-> None]
  /\ cumul_grads = [w \in Workers |-> None]
  /\ loss = [w \in Workers |-> None]
  /\ grads = [w \in Workers |-> None]
  /\ local_mean = [w \in Workers |-> None]
  /\ visited = [w \in Workers |-> <<>>]
  /\ metrics = [w \in Workers |-> None]
  /\ fpc = "idle" /\ f_logits = <<>> /\ f_k = 0 /\ f_p = 0
  /\ f_sorted = <<>> /\ f_out = <<>>
  /\ pc = "idle" /\ sampling_method = None /\ temperature = 1 /\ top_k = None
  /\ top_p = None /\ repetition_penalty = 1 /\ steps = 0 /\ seq_len = 1
  /\ prompt = <<>> /\ x = <<>> /\ x_cond = <<>> /\ layer_past = <<>>
  /\ generated_tokens = <<>> /\ logprobs = <<>> /\ step = 0 /\ calls = <<>>
  /\ appended = <<>> /\ selected = <<>> /\ ret = NoReturn /\ result = NoReturn
  /\ opc = "idle" /\ o_grads = <<>> /\ o_params = <<>> /\ o_state = 0
  /\ o_rule = None /\ o_lr = 1 /\ o_seen = None /\ o_new_params = None
  /\ o_new_state = None

\* a call of update_opt_state (lines 90-97)
OptInit ==
  /\ opc = "call"
  /\ o_grads \in [Leaves -> (-MaxParam) .. MaxParam]
  /\ o_params \in [Leaves -> (-MaxParam) .. MaxParam]
  /\ o_state \in 0 .. 1
  /\ o_rule \in {"sgd", "sign"}
  /\ o_lr \in 1 .. MaxLr
  /\ o_seen = None /\ o_new_params = None /\ o_new_state = None
  /\ fpc = "idle" /\ f_logits = <<>> /\ f_k = 0 /\ f_p = 0
  /\ f_sorted = <<>> /\ f_out = <<>>
  /\ pc = "idle" /\ sampling_method = None /\ temperature = 1 /\ top_k = None
  /\ top_p = None /\ repetition_penalty = 1 /\ steps = 0 /\ seq_len = 1
  /\ prompt = <<>> /\ x = <<>> /\ x_cond = <<>> /\ layer_past = <<>>
  /\ generated_tokens = <<>> /\ logprobs = <<>> /\ step = 0 /\ calls = <<>>
  /\ appended = <<>> /\ selected = <<>> /\ ret = NoReturn /\ result = NoReturn
  /\ W = 0 /\ accum_steps = 1 /\ params = <<>> /\ batch = <<>> /\ tpc = <<>>
  /\ grad_idx = <<>> /\ cumul_loss = <<>> /\ cumul_grads = <<>> /\ loss = <<>>
  /\ grads = <<>> /\ local_mean = <<>> /\ visited = <<>> /\ metrics = <<>>

FilterNext == TopKCall \/ TopPCall

SpecFilter == FilterInit /\ [][FilterNext]_vars

SpecGen == GenInit /\ [][GenNext]_vars

SpecTrain == TrainInit /\ [][TrainNext]_vars

\* every step of GenNext changes the position pc or the loop variable step
genProgress == <<pc, step>>

\* generate_tokens is one sequential loop: a step that can be taken is taken
SpecGenFair == GenInit /\ [][GenNext]_vars /\ WF_genProgress(GenNext)

OptNext == update_opt_state

SpecOpt == OptInit /\ [][OptNext]_vars

\* ------------------------------------------------------------------ claims
Min(a, b) == IF a < b THEN a ELSE b

InvalidConfig == sampling_method \notin Methods \/ temperature <= 0

EosSelected == selected # <<>> /\ selected[Len(selected)] = pad_token

\* C1: the step count generate_tokens returns equals the number of model
\* forward passes of the call (k when end-of-sequence is selected at the k-th
\* step, steps when the budget is exhausted).
C1_StepCountIsForwardPasses ==
  (pc = "DONE" /\ ~InvalidConfig) => ret.step = Len(calls)

\* C2: for each of the four sampling methods, when end-of-sequence is selected
\* before the step budget is exhausted, generate_text_from_prompt returns
\* normally and raises no error.
C2_EarlyEosReturnsNormally ==
  (sampling_method \in Methods /\ temperature > 0 /\ EosSelected
     /\ Len(selected) < steps)
    => pc \notin {"ValueError", "RuntimeError"}

\* C3: with a missing or unknown sampling_method, or a temperature <= 0,
\* generate_tokens raises before the first model forward pass and never
\* selects a token.
C3_InvalidConfigRaisesBeforeModel ==
  InvalidConfig => (calls = <<>> /\ selected = <<>>)

\* C4: update_opt_state on a zero gradient tree, with a rule whose deltas are
\* zero for zero gradients, returns the prior parameters; the rule is run on
\* the gradients the caller passed in.
C4_ZeroGradsLeaveParams ==
  (opc = "done" /\ \A l \in Leaves : o_grads[l] = 0)
    => (o_new_params = o_params /\ o_seen = o_grads)

\* C5: after the accumulation loop every index 0..N-1 has been processed once,
\* in ascending order, with the same parameters, and the loss and every
\* gradient leaf are the sum of the N per-microbatch values divided by N.
C5_AccumulatedMean ==
  \A w \in Workers :
    tpc[w] \notin {"start", "loop"} =>
      /\ Len(visited[w]) = accum_steps
      /\ \A i \in 1 .. accum_steps :
           visited[w][i].idx = i - 1 /\ visited[w][i].params = params
      /\ accum_steps <= Len(batch[w]) =>
           LET mb == [i \in 1 .. accum_steps |-> batch[w][i]]
               m == local_mean[w]
           IN  /\ m.loss[1] * accum_steps
                    = m.loss[2] * SumSeq([i \in 1 .. accum_steps |-> loss_fn(params, mb[i])])
               /\ m.grads[1][1] * accum_steps = m.grads[1][2] * SumSeq(mb)
               /\ m.grads[2][1] * accum_steps = m.grads[2][2] * accum_steps

C5_Witness ==
  \E w \in Workers :
    /\ tpc[w] = "done" /\ accum_steps >= 2 /\ accum_steps <= Len(batch[w])
    /\ batch[w][1] # batch[w][2] /\ params[1] # 0

PastLoss == {"pmean_grads", "return", "done"}

PastGrads == {"return", "done"}

\* C6: after the mean-reduction every worker holds the same loss and gradient
\* tree, the average over the workers of their local means; no worker is past
\* a reduction before every worker has reached it; with one worker the
\* reduction returns its input.
C6_PmeanIdenticalAverage ==
  /\ (\E w \in Workers : tpc[w] \in PastLoss) => \A w \in Workers : tpc[w] \in PastLoss
  /\ (\E w \in Workers : tpc[w] \in PastGrads) => \A w \in Workers : tpc[w] \in PastGrads
  /\ \A w \in Workers :
       tpc[w] \in PastGrads =>
         /\ loss[w][1] * W * RSum([v \in Workers |-> local_mean[v].loss], Workers)[2]
              = loss[w][2] * RSum([v \in Workers |-> local_mean[v].loss], Workers)[1]
         /\ \A l \in Leaves :
              LET total == RSum([v \in Workers |-> local_mean[v].grads[l]], Workers)
              IN  grads[w][l][1] * W * total[2] = grads[w][l][2] * total[1]
         /\ \A v \in Workers : loss[v] = loss[w] /\ grads[v] = grads[w]
         /\ W = 1 => (loss[w] = local_mean[w].loss /\ grads[w] = local_mean[w].grads)

C6_Witness ==
  /\ W >= 2
  /\ \A w \in Workers : tpc[w] = "done"
  /\ local_mean[1].loss # local_mean[2].loss
  /\ local_mean[1].grads # local_mean[2].grads

\* C7: get_minibatch with an index outside [0, size of the accumulation axis)
\* fails instead of returning a slice, so no train_step obtains a microbatch
\* for such an index.
C7_OutOfRangeIndexFails ==
  \A w \in Workers :
    \A i \in DOMAIN visited[w] : visited[w][i].idx < Len(batch[w])

\* C8 as stated: at every point of a generate_tokens run, and in the sequence
\* it returns, the token id sequence is at most seq_len long.
C8_SequenceWithinWindow ==
  ~InvalidConfig =>
    /\ Len(x) <= seq_len
    /\ pc = "DONE" => Len(ret.x) <= seq_len

\* C8 amended: the model input is at most seq_len long (the prompt cut to its
\* most recent seq_len tokens on the first pass, one token on every later
\* pass); the running sequence, which is returned, is the whole prompt
\* followed by every appended token and is never cut.
C8_ModelInputWithinWindow ==
  /\ Len(x_cond) <= seq_len
  /\ \A i \in DOMAIN calls :
       /\ Len(calls[i].input) <= seq_len
       /\ i = 1 => LET n == Min(seq_len, Len(prompt))
                   IN  calls[i].input = SubSeq(prompt, Len(prompt) - n + 1, Len(prompt))
       /\ i > 1 => calls[i].input = <<selected[i - 1]>>
  /\ pc # "PRIME" => x = prompt \o appended
  /\ pc = "DONE" => ret.x = prompt \o appended

C8_Witness ==
  /\ pc = "DONE" /\ Len(prompt) > seq_len /\ Len(calls) >= 2
  /\ Len(ret.x) > seq_len

\* the k-th highest logit: fewer than k logits are above it, at least k are
\* not below it
KthHighest(logits, k) ==
  CHOOSE v \in Range(logits) :
    /\ Cardinality({t \in Vocab : logits[t] > v}) < k
    /\ Cardinality({t \in Vocab : logits[t] >= v}) >= k

\* C9 as stated: top_k_logits leaves exactly k entries unfiltered, also when
\* several logits equal the k-th highest.
C9_TopKKeepsExactlyK ==
  fpc = "topk" => Cardinality(Unfiltered(f_out)) = f_k

\* C9 amended: top_k_logits leaves unfiltered exactly the entries not below
\* the k-th highest logit and sets the others to negative infinity: at least k
\* entries, exactly k when no logit outside the top k equals the k-th highest.
C9_TopKKeepsNotBelowKth ==
  fpc = "topk" =>
    LET kth == KthHighest(f_logits, f_k)
        notBelow == {t \in Vocab : f_logits[t] >= kth}
    IN  /\ \A t \in Vocab :
             f_out[t] = IF t \in notBelow THEN f_logits[t] ELSE NegInf
        /\ Cardinality(Unfiltered(f_out)) >= f_k
        /\ Cardinality(notBelow) = f_k => Cardinality(Unfiltered(f_out)) = f_k

C9_Witness ==
  /\ fpc = "topk"
  /\ Cardinality(Unfiltered(f_out)) > f_k
  /\ Cardinality(Unfiltered(f_out)) < VocabSize

\* cumulative softmax numerators of the call's logits in the order sorted
FCum == CumulativeWeights(ExpWeights(f_logits), f_sorted)

FTotal == SumOver(ExpWeights(f_logits), Vocab)

Prefix(n) == {f_sorted[j] : j \in 1 .. n}

C11_NewSpanIsAppendedTokens ==
  (pc = "TEXT" /\ ~InvalidConfig) => result.new_words = appended

\* C12: for every sampling method, greedy included, every selected token
\* other than end-of-sequence is in the generated-token history, once.
C12_SelectedTokensInHistory ==
  ~InvalidConfig =>
    /\ \A i \in DOMAIN selected :
         selected[i] # pad_token => selected[i] \in Range(generated_tokens)
    /\ \A i, j \in DOMAIN generated_tokens :
         generated_tokens[i] = generated_tokens[j] => i = j

Returned == pc \in {"DONE", "TEXT", "ValueError"}

\* the last n elements of t, all of t when it is shorter
Suffix(t, n) == SubSeq(t, Len(t) - Min(n, Len(t)) + 1, Len(t))

\* every forward pass so far selected a token, none after end-of-sequence, and
\* pass i received the truncated prompt without cache (i = 1) or the token
\* selected by pass i-1 with the cache of passes 1..i-1 (i > 1)
PassesAsClaimed ==
  /\ Len(calls) <= steps
  /\ Len(calls) = Len(selected)
  /\ \A i \in 1 .. (Len(selected) - 1) : selected[i] # pad_token
  /\ Returned =>
       IF pad_token \in Range(selected)
       THEN selected[Len(selected)] = pad_token
       ELSE Len(calls) = steps
  /\ \A i \in DOMAIN calls :
       IF i = 1
       THEN calls[i].input = Suffix(prompt, seq_len) /\ calls[i].past = NoCache
       ELSE /\ calls[i].input = <<selected[i - 1]>>
            /\ calls[i].past =
                 <<Suffix(Suffix(prompt, seq_len) \o SubSeq(selected, 1, i - 2), seq_len)>>

\* C13: with a valid configuration generate_tokens eventually reaches DONE
\* after at most steps forward passes: exactly steps when end-of-sequence is
\* never selected, stopping at the first end-of-sequence otherwise, with no
\* model call after DONE; the first pass receives the truncated prompt, every
\* later pass the token just selected and the cache of the previous pass.
C13_TerminatesWithinBudget ==
  /\ [](~InvalidConfig => PassesAsClaimed)
  /\ [][(~InvalidConfig /\ Returned) => calls' = calls]_calls
  /\ ~InvalidConfig => <>(pc = "DONE")

C13_Witness ==
  /\ ~InvalidConfig /\ pc = "DONE"
  /\ steps >= 2 /\ Len(calls) = steps
  /\ pad_token \notin Range(selected)
  /\ Len(prompt) > seq_len

====
